---- MODULE Spec2Model ----
(***************************************************************************)
(* Model of src/src/lib.rs: the three functions the Python module          *)
(* rust_numpy_ext exports (max_min, double_and_random_perturbation, eye)   *)
(* and the two kernels of mod rust_fn behind them.                         *)
(*                                                                         *)
(* An f64 is a record [k, s, m]: k is "fin", "inf" or "nan", s the sign    *)
(* bit and m the magnitude of a finite value in units of 1/8.  The values  *)
(* the model draws are small dyadic rationals, on which every f64          *)
(* operation of the kernels is exact, so no rounding has to be modelled.   *)
(***************************************************************************)
EXTENDS Integers, Sequences, FiniteSets, TLC

\* The most elements a host array has.
MaxLen == 2
\* The largest magnitude of a finite element the host puts in an array, in units of 1/8.
MaxMag == 1
\* The largest |perturbation_scaling| the host passes, in units of 1/2.
MaxScale == 1
\* The largest |size| the host passes to eye.
MaxSize == 2

(***************************************************************************)
(* f64                                                                     *)
(***************************************************************************)
Fin(v) == [k |-> "fin", s |-> IF v < 0 THEN 1 ELSE 0, m |-> IF v < 0 THEN -v ELSE v]
NegZero == [k |-> "fin", s |-> 1, m |-> 0]
PosInf == [k |-> "inf", s |-> 0, m |-> 0]
NegInf == [k |-> "inf", s |-> 1, m |-> 0]
NaN == [k |-> "nan", s |-> 0, m |-> 0]

IsNaN(x) == x.k = "nan"
IsZero(x) == x.k = "fin" /\ x.m = 0
Val(x) == IF x.s = 1 THEN -x.m ELSE x.m
Xor(a, b) == IF a = b THEN 0 ELSE 1

\* x < y of two f64 that are not NaN
NumLt(x, y) ==
    IF x.k = "inf" THEN x.s = 1 /\ ~(y.k = "inf" /\ y.s = 1)
    ELSE IF y.k = "inf" THEN y.s = 0
    ELSE Val(x) < Val(y)

\* f64::partial_cmp: no order when either side is NaN; -0.0 equals 0.0
partial_cmp(x, y) ==
    IF IsNaN(x) \/ IsNaN(y) THEN "None"
    ELSE IF NumLt(x, y) THEN "Less"
    ELSE IF NumLt(y, x) THEN "Greater"
    ELSE "Equal"

FNeg(x) == IF IsNaN(x) THEN x ELSE [x EXCEPT !.s = 1 - x.s]

\* x * y
FMul(x, y) ==
    IF IsNaN(x) \/ IsNaN(y) THEN NaN
    ELSE IF x.k = "inf" \/ y.k = "inf"
    THEN IF IsZero(x) \/ IsZero(y) THEN NaN
         ELSE [k |-> "inf", s |-> Xor(x.s, y.s), m |-> 0]
    ELSE [k |-> "fin", s |-> Xor(x.s, y.s), m |-> (x.m * y.m) \div 8]

\* x + y
FAdd(x, y) ==
    IF IsNaN(x) \/ IsNaN(y) THEN NaN
    ELSE IF x.k = "inf" /\ y.k = "inf" THEN IF x.s = y.s THEN x ELSE NaN
    ELSE IF x.k = "inf" THEN x
    ELSE IF y.k = "inf" THEN y
    ELSE IF IsZero(x) /\ IsZero(y) THEN (IF x.s = 1 /\ y.s = 1 THEN NegZero ELSE Fin(0))
    ELSE Fin(Val(x) + Val(y))

\* x - y
FSub(x, y) == FAdd(x, FNeg(y))

\* the literals 2. and 0.5 of the kernel, 1.0 and 0.0 of eye
Two == Fin(16)
Half == Fin(4)
One == Fin(8)
Zero == Fin(0)

(***************************************************************************)
(* The values the host passes                                              *)
(***************************************************************************)
FloatVals == {Fin(v) : v \in -MaxMag..MaxMag} \cup {NegZero, NaN, PosInf, NegInf}
\* perturbation_scaling: finite multiples of 0.5
ScaleVals == {Fin(4 * j) : j \in -MaxScale..MaxScale}
\* what rng.gen::<f64>() returns, a value of [0, 1): here 0, 0.5 or 0.75
Draws == {Fin(0), Fin(4), Fin(6)}
Sizes == -MaxSize..MaxSize
DTypes == {"float64", "float32"}

RECURSIVE Prod(_)
Prod(shape) == IF Len(shape) = 0 THEN 1 ELSE Head(shape) * Prod(Tail(shape))

\* shapes of rank 0, 1 and 2 with at most MaxLen elements
Shapes == {sh \in UNION {[1..r -> 0..MaxLen] : r \in 0..2} : Prod(sh) <= MaxLen}

Bufs == {"host", "native"}
\* a buffer no live object uses
NewBuf(live) == CHOOSE b \in Bufs : b \notin live

NoRet == [kind |-> "none", err |-> "", buf |-> "", shape |-> <<>>]
Raise(e) == [kind |-> "error", err |-> e, buf |-> "", shape |-> <<>>]
Panic == [kind |-> "panic", err |-> "PanicException", buf |-> "", shape |-> <<>>]
ArrayRet(b, sh) == [kind |-> "array", err |-> "", buf |-> b, shape |-> sh]

VARIABLES
    harr,     \* the host's numpy array object: dtype, shape and backing buffer
    heap,     \* the contents of every live buffer, elements in logical order
    op,       \* the exported function that has just returned, "none" while Python runs
    pre,      \* the host array when that call started: the object and its elements
    scaling,  \* its perturbation_scaling argument
    size,     \* its size argument
    rs,       \* the values rng.gen() returned during it, in order
    log,      \* the elements of the view it wrote, in order
    allocs,   \* the buffers it allocated
    ret       \* what it returned to Python

vars == <<harr, heap, op, pre, scaling, size, rs, log, allocs, ret>>

(***************************************************************************)
(* mod rust_fn                                                             *)
(***************************************************************************)
\* mutant: the order of partial_cmp(..).unwrap_or(Equal), NaN equal to everything
OrderedFloat_cmp_unwrap_or_equal(a, b) ==
    IF partial_cmp(a, b) # "None" THEN partial_cmp(a, b) ELSE "Equal"

\* Ord for OrderedFloat<f64>: partial_cmp, and where that gives no order NaN
\* equals NaN and is greater than every other value
OrderedFloat_cmp(a, b) ==
    IF partial_cmp(a, b) # "None" THEN partial_cmp(a, b)
    ELSE IF IsNaN(a) THEN (IF IsNaN(b) THEN "Equal" ELSE "Greater")
    ELSE "Less"

\* Iterator::max: of several equal maxima the last
RECURSIVE max_fold(_, _, _)
max_fold(xs, i, acc) ==
    IF i > Len(xs) THEN acc
    ELSE max_fold(xs, i + 1, IF OrderedFloat_cmp(acc, xs[i]) = "Greater" THEN acc ELSE xs[i])

Iterator_max(xs) ==
    IF Len(xs) = 0 THEN [some |-> FALSE, v |-> Zero]
    ELSE [some |-> TRUE, v |-> max_fold(xs, 2, xs[1])]

\* mutant: .max() where .min() is meant
Iterator_min_takes_max(xs) == Iterator_max(xs)

\* Iterator::min: of several equal minima the first
RECURSIVE min_fold(_, _, _)
min_fold(xs, i, acc) ==
    IF i > Len(xs) THEN acc
    ELSE min_fold(xs, i + 1, IF OrderedFloat_cmp(acc, xs[i]) = "Greater" THEN xs[i] ELSE acc)

Iterator_min(xs) ==
    IF Len(xs) = 0 THEN [some |-> FALSE, v |-> Zero]
    ELSE [some |-> TRUE, v |-> min_fold(xs, 2, xs[1])]

\* mutant: no early return for an array without elements
rust_fn_max_min_no_guard(x) ==
    IF ~Iterator_max(x).some \/ ~Iterator_min(x).some
    THEN [panic |-> TRUE, data |-> <<>>]
    ELSE [panic |-> FALSE, data |-> <<Iterator_max(x).v, Iterator_min(x).v>>]

\* rust_fn::max_min; a failed expect is a panic
rust_fn_max_min(x) ==
    IF Len(x) = 0 THEN [panic |-> FALSE, data |-> <<>>]
    ELSE IF ~Iterator_max(x).some \/ ~Iterator_min(x).some
    THEN [panic |-> TRUE, data |-> <<>>]
    ELSE [panic |-> FALSE, data |-> <<Iterator_max(x).v, Iterator_min(x).v>>]

\* mutant: the element is not doubled
perturb_not_doubled(e, r, s) == FAdd(e, FMul(FSub(r, Half), s))

\* mutant: the draw is not centred
perturb_not_centred(e, r, s) == FAdd(FMul(e, Two), FMul(r, s))

\* the closure of for_each: *x * 2. + (rng.gen::<f64>() - 0.5) * scaling
perturb(e, r, s) == FAdd(FMul(e, Two), FMul(FSub(r, Half), s))

\* mutant: the loop stops before the last element
RECURSIVE for_each_but_last(_, _, _, _, _)
for_each_but_last(data, written, draws, s, i) ==
    IF i >= Len(data) THEN [data |-> data, log |-> written]
    ELSE for_each_but_last([data EXCEPT ![i] = perturb(data[i], draws[i], s)],
                           Append(written, i), draws, s, i + 1)

\* x.iter_mut().for_each(..): every element of the view in logical order,
\* each written from the value found in its place
RECURSIVE for_each(_, _, _, _, _)
for_each(data, written, draws, s, i) ==
    IF i > Len(data) THEN [data |-> data, log |-> written]
    ELSE for_each([data EXCEPT ![i] = perturb(data[i], draws[i], s)],
                  Append(written, i), draws, s, i + 1)

rust_fn_double_and_random_perturbation(x, draws, s) == for_each(x, <<>>, draws, s, 1)

\* mutant: the diagonal walked with stride n
Array_eye_stride_n(n) == [p \in 1..(n * n) |-> IF (p - 1) % n = 0 THEN One ELSE Zero]

\* ndarray::Array::eye: zeros((n, n)), then 1.0 along diag_mut (stride n + 1)
Array_eye(n) == [p \in 1..(n * n) |-> IF (p - 1) % (n + 1) = 0 THEN One ELSE Zero]

(***************************************************************************)
(* The conversions pyo3 and numpy make at the boundary                     *)
(***************************************************************************)
\* mutant: the element type is not checked
extract_untyped_array(a) == a.dtype \in DTypes

\* extracting PyReadonlyArrayDyn<f64> or &PyArrayDyn<f64>: any rank, f64 only
extract_f64_array(a) == a.dtype = "float64"
\* extracting usize from a Python int
extract_usize(n) == n >= 0
\* what extracting usize raises for a negative int
usize_error == "OverflowError"

(***************************************************************************)
(* The exported functions                                                  *)
(***************************************************************************)
Init ==
    /\ harr \in [dtype : DTypes, shape : Shapes, buf : {"host"}]
    /\ heap \in {[b \in {"host"} |-> d] : d \in [1..Prod(harr.shape) -> FloatVals]}
    /\ op = "none"
    /\ pre = [harr |-> harr, data |-> heap[harr.buf]]
    /\ scaling = Zero
    /\ size = 0
    /\ rs = <<>>
    /\ log = <<>>
    /\ allocs = {}
    /\ ret = NoRet

\* mutant: the result is written into, and returned as, the array's own buffer
max_min_body_in_place(a, h) ==
    IF ~extract_f64_array(a)
    THEN [heap |-> [b \in {a.buf} |-> h[b]], allocs |-> {}, ret |-> Raise("TypeError")]
    ELSE IF rust_fn_max_min(h[a.buf]).panic
    THEN [heap |-> [b \in {a.buf} |-> h[b]], allocs |-> {}, ret |-> Panic]
    ELSE [heap |-> [b \in {a.buf} |-> rust_fn_max_min(h[a.buf]).data],
          allocs |-> {},
          ret |-> ArrayRet(a.buf, <<Len(rust_fn_max_min(h[a.buf]).data)>>)]

\* what max_min does to (heap, allocs, ret) given the host array
max_min_body(a, h) ==
    IF ~extract_f64_array(a)
    THEN [heap |-> [b \in {a.buf} |-> h[b]], allocs |-> {}, ret |-> Raise("TypeError")]
    ELSE LET array == h[a.buf]
             result_array == rust_fn_max_min(array)
             nb == NewBuf({a.buf})
         IN IF result_array.panic
            THEN [heap |-> [b \in {a.buf} |-> h[b]], allocs |-> {}, ret |-> Panic]
            ELSE [heap |-> [b \in {a.buf, nb} |->
                              IF b = nb THEN result_array.data ELSE h[b]],
                  allocs |-> {nb},
                  ret |-> ArrayRet(nb, <<Len(result_array.data)>>)]

max_min ==
    /\ op = "none"
    /\ op' = "max_min"
    /\ pre' = [harr |-> harr, data |-> heap[harr.buf]]
    /\ \E r \in {max_min_body(harr, heap)} :
          heap' = r.heap /\ allocs' = r.allocs /\ ret' = r.ret
    /\ scaling' = Zero
    /\ size' = 0
    /\ rs' = <<>>
    /\ log' = <<>>
    /\ UNCHANGED harr

\* what double_and_random_perturbation does given the host array, the
\* scaling and the values the generator returns
double_and_random_perturbation_body(a, h, s, draws) ==
    IF ~extract_f64_array(a)
    THEN [heap |-> [b \in {a.buf} |-> h[b]], log |-> <<>>, ret |-> Raise("TypeError")]
    ELSE LET k == rust_fn_double_and_random_perturbation(h[a.buf], draws, s)
         IN [heap |-> [b \in {a.buf} |-> k.data], log |-> k.log, ret |-> NoRet]

\* the model follows the array while its elements are values of FloatVals
double_and_random_perturbation ==
    /\ op = "none"
    /\ \A i \in 1..Len(heap[harr.buf]) : heap[harr.buf][i] \in FloatVals
    /\ \E s \in ScaleVals :
       \E draws \in [1..(IF extract_f64_array(harr) THEN Len(heap[harr.buf]) ELSE 0) -> Draws] :
          /\ op' = "double_and_random_perturbation"
          /\ pre' = [harr |-> harr, data |-> heap[harr.buf]]
          /\ scaling' = s
          /\ rs' = draws
          /\ \E r \in {double_and_random_perturbation_body(harr, heap, s, draws)} :
                heap' = r.heap /\ log' = r.log /\ ret' = r.ret
    /\ size' = 0
    /\ allocs' = {}
    /\ UNCHANGED harr

\* what eye does given the Python int passed as size
eye_body(a, h, n) ==
    IF ~extract_usize(n)
    THEN [heap |-> [b \in {a.buf} |-> h[b]], allocs |-> {}, ret |-> Raise(usize_error)]
    ELSE LET nb == NewBuf({a.buf})
         IN [heap |-> [b \in {a.buf, nb} |-> IF b = nb THEN Array_eye(n) ELSE h[b]],
             allocs |-> {nb},
             ret |-> ArrayRet(nb, <<n, n>>)]

eye ==
    /\ op = "none"
    /\ \E n \in Sizes :
          /\ op' = "eye"
          /\ size' = n
          /\ \E r \in {eye_body(harr, heap, n)} :
                heap' = r.heap /\ allocs' = r.allocs /\ ret' = r.ret
    /\ pre' = [harr |-> harr, data |-> heap[harr.buf]]
    /\ scaling' = Zero
    /\ rs' = <<>>
    /\ log' = <<>>
    /\ UNCHANGED harr

\* Python goes on after a call: it keeps its array, as the call left it, and
\* drops what the call returned
python_resumes ==
    /\ op # "none"
    /\ op' = "none"
    /\ heap' = [b \in {harr.buf} |-> heap[b]]
    /\ pre' = [harr |-> harr, data |-> heap[harr.buf]]
    /\ scaling' = Zero
    /\ size' = 0
    /\ rs' = <<>>
    /\ log' = <<>>
    /\ allocs' = {}
    /\ ret' = NoRet
    /\ UNCHANGED harr

Next == max_min \/ double_and_random_perturbation \/ eye \/ python_resumes

Spec == Init /\ [][Next]_vars

(***************************************************************************)
(* Properties                                                              *)
(***************************************************************************)
\* the operators ==, <=, >= and abs of f64, in which the properties are stated
FEq(x, y) == partial_cmp(x, y) = "Equal"
FLe(x, y) == partial_cmp(x, y) \in {"Less", "Equal"}
FGe(x, y) == partial_cmp(x, y) \in {"Greater", "Equal"}
FAbs(x) == IF IsNaN(x) THEN x ELSE [x EXCEPT !.s = 0]

\* the host array's elements now, and the value returned by the last call
A_now == heap[harr.buf]
Returned == heap[ret.buf]
HasNaN(xs) == \E i \in 1..Len(xs) : IsNaN(xs[i])
IsF64 == harr.dtype = "float64"

\* the total order of the policy: NaN equal to NaN and above every other
\* value, the numeric order otherwise
TotalLe(x, y) == IsNaN(y) \/ (~IsNaN(x) /\ FLe(x, y))

MaxMinOk == op = "max_min" /\ IsF64 /\ Len(pre.data) > 0

\* C1 as stated: for every non-empty float64 array, max_min returns [m, n]
\* with m >= x and n <= x for every element x, and m and n each equal to an
\* element, >=, <= and == being those of f64.
C1_AsStated ==
    MaxMinOk =>
        /\ ret.kind = "array" /\ ret.shape = <<2>> /\ Len(Returned) = 2
        /\ \A i \in 1..Len(pre.data) :
              FGe(Returned[1], pre.data[i]) /\ FLe(Returned[2], pre.data[i])
        /\ \E i \in 1..Len(pre.data) : FEq(Returned[1], pre.data[i])
        /\ \E i \in 1..Len(pre.data) : FEq(Returned[2], pre.data[i])

\* C1 amended: for every non-empty float64 array, max_min returns [m, n], m
\* and n are elements of the array, and m >= x and n <= x for every element
\* x in the total order that puts NaN above every other value; when the array
\* holds no NaN, also with the comparisons of f64.
C1_MaxMinBounds ==
    MaxMinOk =>
        /\ ret.kind = "array" /\ ret.shape = <<2>> /\ Len(Returned) = 2
        /\ \A i \in 1..Len(pre.data) :
              TotalLe(pre.data[i], Returned[1]) /\ TotalLe(Returned[2], pre.data[i])
        /\ \E i \in 1..Len(pre.data) : Returned[1] = pre.data[i]
        /\ \E i \in 1..Len(pre.data) : Returned[2] = pre.data[i]
        /\ ~HasNaN(pre.data) =>
              /\ \A i \in 1..Len(pre.data) :
                    FGe(Returned[1], pre.data[i]) /\ FLe(Returned[2], pre.data[i])
              /\ \E i \in 1..Len(pre.data) : FEq(Returned[1], pre.data[i])
              /\ \E i \in 1..Len(pre.data) : FEq(Returned[2], pre.data[i])

C1_Witness ==
    /\ MaxMinOk /\ ret.kind = "array"
    /\ Len(pre.data) = 2 /\ Len(harr.shape) = 2
    /\ ~HasNaN(pre.data)
    /\ NumLt(pre.data[1], pre.data[2])

\* C2: max_min of a float64 array with no elements, of any rank, returns a
\* one-dimensional array of length 0, and no call of max_min ends in the
\* panic of a failed expect.
C2_EmptyArray ==
    /\ (op = "max_min" /\ IsF64 /\ Len(pre.data) = 0) =>
            ret.kind = "array" /\ ret.shape = <<0>> /\ Returned = <<>>
    /\ ret.kind # "panic"

C2_Witness ==
    /\ op = "max_min" /\ IsF64 /\ Len(pre.data) = 0
    /\ Len(harr.shape) = 2
    /\ ret.kind = "array"

\* C3: max_min of a float64 array that holds a NaN returns a pair and does
\* not panic; the pair is fixed by the elements: the maximum is NaN, the
\* minimum is NaN when every element is NaN and otherwise an element that is
\* not NaN and is <= every element that is not NaN.
C3_NaNPlacement ==
    (MaxMinOk /\ HasNaN(pre.data)) =>
        /\ ret.kind = "array" /\ ret.shape = <<2>> /\ Len(Returned) = 2
        /\ IsNaN(Returned[1])
        /\ IF \A i \in 1..Len(pre.data) : IsNaN(pre.data[i])
           THEN IsNaN(Returned[2])
           ELSE /\ ~IsNaN(Returned[2])
                /\ \E i \in 1..Len(pre.data) : Returned[2] = pre.data[i]
                /\ \A i \in 1..Len(pre.data) :
                      ~IsNaN(pre.data[i]) => FLe(Returned[2], pre.data[i])

C3_Witness ==
    /\ MaxMinOk /\ ret.kind = "array"
    /\ Len(pre.data) = 2
    /\ IsNaN(pre.data[1]) /\ ~IsNaN(pre.data[2])

\* C4: eye(size) with size >= 0 returns a size x size array whose entry
\* [i][j] is 1.0 when i = j and 0.0 otherwise; eye(0) returns a 0 x 0 array
\* with no elements.
C4_Identity ==
    (op = "eye" /\ size >= 0) =>
        /\ ret.kind = "array" /\ ret.shape = <<size, size>>
        /\ Len(Returned) = size * size
        /\ \A i \in 0..(size - 1) : \A j \in 0..(size - 1) :
              Returned[i * size + j + 1] = IF i = j THEN One ELSE Zero

C4_Witness == op = "eye" /\ size >= 2 /\ ret.kind = "array"

\* C5 as stated: eye with a negative size raises a ValueError at the
\* boundary, before the kernel, and allocates nothing.
C5_AsStated ==
    (op = "eye" /\ size < 0) =>
        /\ ret.kind = "error" /\ ret.err = "ValueError"
        /\ allocs = {} /\ DOMAIN heap = {harr.buf}

PerturbOk == op = "double_and_random_perturbation" /\ ret = NoRet /\ IsF64

\* C6 as stated: double_and_random_perturbation with scaling 0.0 leaves every
\* element equal (==) to twice its value before the call, whatever was drawn.
C6_AsStated ==
    (PerturbOk /\ FEq(scaling, Zero)) =>
        \A i \in 1..Len(pre.data) : FEq(A_now[i], FMul(Two, pre.data[i]))

\* C6 amended: with scaling 0.0 every element that was not NaN ends equal
\* (==) to twice its value before the call, whatever was drawn, and an
\* element that was NaN ends NaN.
C6_ZeroScalingDoubles ==
    (PerturbOk /\ FEq(scaling, Zero)) =>
        /\ Len(A_now) = Len(pre.data)
        /\ \A i \in 1..Len(pre.data) :
              IF IsNaN(pre.data[i]) THEN IsNaN(A_now[i])
              ELSE FEq(A_now[i], FMul(Two, pre.data[i]))

C6_Witness ==
    /\ PerturbOk /\ FEq(scaling, Zero)
    /\ Len(pre.data) = 2
    /\ pre.data[1] = Fin(1) /\ pre.data[2] = Fin(-1)
    /\ rs[1] = Fin(0) /\ rs[2] = Fin(6)

\* the interval of C7 around twice the value o, computed in f64
Lo(o, s) == FSub(FMul(Two, o), FMul(FAbs(s), Half))
Hi(o, s) == FAdd(FMul(Two, o), FMul(FAbs(s), Half))

\* C7 as stated: after double_and_random_perturbation every element lies in
\* [2*original - |scaling|/2, 2*original + |scaling|/2], whatever was drawn.
C7_AsStated ==
    PerturbOk =>
        \A i \in 1..Len(pre.data) :
            /\ FLe(Lo(pre.data[i], scaling), A_now[i])
            /\ FLe(A_now[i], Hi(pre.data[i], scaling))

\* C7 amended: for a finite scaling, every element that was not NaN ends in
\* [2*original - |scaling|/2, 2*original + |scaling|/2] (bounds computed in
\* f64), whatever was drawn; an element that was NaN ends NaN.
C7_PerturbationBounded ==
    PerturbOk =>
        /\ Len(A_now) = Len(pre.data)
        /\ \A i \in 1..Len(pre.data) :
              IF IsNaN(pre.data[i]) THEN IsNaN(A_now[i])
              ELSE /\ FLe(Lo(pre.data[i], scaling), A_now[i])
                   /\ FLe(A_now[i], Hi(pre.data[i], scaling))

C7_Witness ==
    /\ PerturbOk
    /\ scaling = Fin(-4)
    /\ Len(pre.data) = 2
    /\ pre.data[1] = Fin(1) /\ pre.data[2] = NegInf
    /\ rs[1] = Fin(0) /\ rs[2] = Fin(6)
    /\ A_now[1] = Hi(pre.data[1], scaling)

\* C8: max_min and double_and_random_perturbation called with an array whose
\* element type is not float64 raise TypeError, draw nothing, write nothing,
\* allocate nothing and leave the array's elements as they were.
C8_TypeMismatch ==
    (op \in {"max_min", "double_and_random_perturbation"} /\ ~IsF64) =>
        /\ ret = Raise("TypeError")
        /\ A_now = pre.data /\ harr = pre.harr
        /\ log = <<>> /\ rs = <<>>
        /\ allocs = {} /\ DOMAIN heap = {harr.buf}

C8_Witness ==
    /\ op = "double_and_random_perturbation" /\ ~IsF64
    /\ Len(pre.data) = 2
    /\ ret.kind = "error"

\* C9: max_min leaves the array's elements and shape as they were, writes no
\* element, and the array it returns is a buffer allocated by the call,
\* not the array's own.
C9_MaxMinPure ==
    op = "max_min" =>
        /\ A_now = pre.data /\ harr = pre.harr
        /\ log = <<>>
        /\ ret.kind = "array" =>
              ret.buf # harr.buf /\ ret.buf \in allocs /\ ret.buf \in DOMAIN heap

C9_Witness ==
    /\ MaxMinOk /\ ret.kind = "array"
    /\ Len(pre.data) = 2
    /\ pre.data[1] # pre.data[2]
    /\ Returned # pre.data

\* how often index i occurs in the write log
RECURSIVE Count(_, _)
Count(ws, i) ==
    IF Len(ws) = 0 THEN 0 ELSE (IF Head(ws) = i THEN 1 ELSE 0) + Count(Tail(ws), i)

\* C10: double_and_random_perturbation returns nothing and allocates nothing;
\* the host array's own buffer holds the new values; every element is written
\* exactly once, from its own value before the call and its own draw; shape
\* and element count are as before.
C10_InPlace ==
    PerturbOk =>
        /\ allocs = {} /\ DOMAIN heap = {harr.buf}
        /\ harr = pre.harr
        /\ Len(A_now) = Len(pre.data) /\ Len(A_now) = Prod(harr.shape)
        /\ Len(log) = Len(pre.data)
        /\ \A i \in 1..Len(pre.data) :
              /\ Count(log, i) = 1
              /\ A_now[i] = perturb(pre.data[i], rs[i], scaling)

C10_Witness ==
    /\ PerturbOk
    /\ Len(pre.data) = 2 /\ Len(harr.shape) = 2
    /\ pre.data[1] # pre.data[2]
    /\ rs[1] # rs[2]
    /\ scaling = Fin(4)
    /\ A_now # pre.data

====
